---- MODULE Spec2Model ----
(***************************************************************************)
(* Model of the ALTO parser of the document viewer (src/src/alto.py).      *)
(*                                                                         *)
(* Text is a sequence of one-character strings.  A markup string is a      *)
(* sequence of tags; a tag has a kind (open, close, empty), an element     *)
(* name and its attributes in the order they are written.  The regular     *)
(* expressions of parse_alto_xml are evaluated on that sequence: a         *)
(* `[^>]*` never leaves the tag it started in, `[\s\S]*?` runs lazily to   *)
(* the first end tag, and a greedy `[^>]*` before a literal takes the last *)
(* occurrence of the literal that lets the rest of the pattern match.      *)
(*                                                                         *)
(* The variable doc is the document the markup was written from: it is     *)
(* what the properties compare the parser's result with, and the parser    *)
(* never reads it.                                                         *)
(***************************************************************************)
EXTENDS Integers, Sequences, FiniteSets, TLC

VARIABLES
    doc,                      \* the document behind the markup (never read by the parser)
    xml_string,               \* parse_alto_xml's argument
    pc,                       \* position of the call: page, lines, loop, done, raised
    page_width, page_height,
    raw_matches,              \* list(text_line_pattern.finditer(xml_string))
    regex_mismatch,           \* the "REGEX MISMATCH!" warning was logged
    next_match,               \* index of the loop over raw_matches
    text_lines, transcription_lines,
    skipped_no_polygon, skipped_no_transcription,
    result,                   \* the AltoData returned
    exc,                      \* the exception that left the call, "none" if none
    fmt,                      \* the parsers applied one after another to one page
    calls,                    \* the frames of concurrent calls of parse_alto_xml
    tool,                     \* the tool call (or library call) in progress
    cache,                    \* the lru_cache of each fetch helper
    requests,                 \* the requests sent to the remote server so far
    workers                   \* the tasks of load_thumbnails' thread pool

parser_vars == <<doc, xml_string, pc, page_width, page_height, raw_matches, regex_mismatch,
                 next_match, text_lines, transcription_lines, skipped_no_polygon,
                 skipped_no_transcription, result, exc>>

env_vars == <<fmt, calls, tool, cache, requests, workers>>

vars == <<parser_vars, env_vars>>

----------------------------------------------------------------------------
(* Bounds of the checked documents *)

MaxLines == 2      \* line elements of a document of the layout family
MaxWords == 2      \* String elements of a line of the word family

----------------------------------------------------------------------------
(* Text *)

DigitChar == <<"0", "1", "2", "3", "4", "5", "6", "7", "8", "9">>

IsDigit(c) == \E d \in 1..10 : DigitChar[d] = c

DigitValue(c) == (CHOOSE d \in 1..10 : DigitChar[d] = c) - 1

\* the decimal numeral of n, as a writer of markup prints it
RECURSIVE Numeral(_)
Numeral(n) ==
    IF n < 10 THEN <<DigitChar[n + 1]>>
    ELSE Numeral(n \div 10) \o <<DigitChar[(n % 10) + 1]>>

\* the regular expression \d+ against a whole attribute value
MatchesDigits(s) == Len(s) > 0 /\ \A k \in 1..Len(s) : IsDigit(s[k])

\* Python int() of a string of digits
RECURSIVE int(_)
int(s) ==
    IF Len(s) = 0 THEN 0
    ELSE 10 * int(SubSeq(s, 1, Len(s) - 1)) + DigitValue(s[Len(s)])

\* Python sep.join(parts)
RECURSIVE join(_, _)
join(sep, parts) ==
    IF Len(parts) = 0 THEN <<>>
    ELSE IF Len(parts) = 1 THEN parts[1]
    ELSE parts[1] \o sep \o join(sep, Tail(parts))

SPACE == <<" ">>
NEWLINE == <<"\n">>

----------------------------------------------------------------------------
(* Documents and their markup *)

Attr(k, v) == [k |-> k, v |-> v]
OpenTag(name, attrs) == [kind |-> "open", name |-> name, attrs |-> attrs]
CloseTag(name) == [kind |-> "close", name |-> name, attrs |-> <<>>]
EmptyTag(name, attrs) == [kind |-> "empty", name |-> name, attrs |-> attrs]

\* The words of the documents.  wc is the WC score in thousandths, -1 when the
\* String declares none; subs is the SUBS_CONTENT of a hyphenated word, empty
\* when the String declares none.
Sedan == [content |-> <<"s", "e", "d", "a", "n">>, wc |-> 980, subs |-> <<>>]
Han == [content |-> <<"h", "a", "n">>, wc |-> 960, subs |-> <<>>]
Och == [content |-> <<"o", "c", "h">>, wc |-> -1, subs |-> <<>>]
Blank == [content |-> <<>>, wc |-> -1, subs |-> <<>>]
Hyphenated == [content |-> <<"Z", "e", "i", "-">>, wc |-> -1,
               subs |-> <<"Z", "e", "i", "t", "u", "n", "g">>]

WordKinds == {Sedan, Han, Och, Blank, Hyphenated}

POINTS == <<"1", ",", "2", " ", "3", ",", "4">>

\* the forms a line element takes: its attribute order and its polygon
LineForms == {"ok", "alt", "nopoly", "emptypoly"}

\* line element number i of a page
Line(i, form, words) ==
    [id |-> <<"l">> \o Numeral(i),
     hpos |-> 100 * i + 55, vpos |-> 200 * i + 3,
     width |-> 400 + i, height |-> 40 + i,
     order |-> IF form = "alt" THEN "alt" ELSE "std",
     has_polygon |-> form # "nopoly",
     points |-> IF form \in {"ok", "alt"} THEN POINTS ELSE <<>>,
     words |-> words]

\* all sequences of at most n elements of S
RECURSIVE SeqsUpTo(_, _)
SeqsUpTo(S, n) ==
    IF n = 0 THEN {<<>>}
    ELSE LET shorter == SeqsUpTo(S, n - 1)
         IN shorter \cup {Append(s, x) : s \in {t \in shorter : Len(t) = n - 1}, x \in S}

\* Layout family: up to MaxLines lines of every form, with two words or none,
\* under every form of the page element, flat or nested, every end tag
\* present or the end tag of one line missing (open_line).
LayoutLineChoices == LineForms \X {<<Sedan, Han>>, <<>>}

LayoutDocs ==
    {[page |-> p, nested |-> n, open_line |-> o,
      lines |-> [i \in 1..Len(c) |-> Line(i, c[i][1], c[i][2])]] :
        p \in {"none", "wh", "hw"}, n \in BOOLEAN,
        o \in 0..MaxLines, c \in SeqsUpTo(LayoutLineChoices, MaxLines)}

\* Word family: one line with every list of at most MaxWords words, alone or
\* followed by a second line of one word.
WordLists == SeqsUpTo(WordKinds, MaxWords)

WordDocs ==
    {[page |-> "wh", nested |-> FALSE, open_line |-> 0,
      lines |-> <<Line(1, "ok", w)>>] : w \in WordLists}
    \cup
    {[page |-> "wh", nested |-> FALSE, open_line |-> 0,
      lines |-> <<Line(1, "ok", w), Line(2, "ok", <<x>>)>>] :
        w \in WordLists, x \in WordKinds}

Docs == {d \in LayoutDocs : d.open_line <= Len(d.lines)} \cup WordDocs

\* the page dimensions the documents declare
DeclaredWidth == 5379
DeclaredHeight == 600

PageAttrs(form) ==
    <<Attr("ID", <<"P", "1">>)>> \o
    (CASE form = "wh" -> <<Attr("WIDTH", Numeral(DeclaredWidth)),
                           Attr("HEIGHT", Numeral(DeclaredHeight))>>
       [] form = "hw" -> <<Attr("HEIGHT", Numeral(DeclaredHeight)),
                           Attr("WIDTH", Numeral(DeclaredWidth))>>
       [] form = "none" -> <<>>)

BlockAttrs ==
    <<Attr("ID", <<"b">>), Attr("HPOS", Numeral(50)), Attr("VPOS", Numeral(60)),
      Attr("HEIGHT", Numeral(70)), Attr("WIDTH", Numeral(80))>>

LineAttrs(l) ==
    <<Attr("ID", l.id), Attr("HPOS", Numeral(l.hpos)), Attr("VPOS", Numeral(l.vpos))>> \o
    (IF l.order = "std"
     THEN <<Attr("HEIGHT", Numeral(l.height)), Attr("WIDTH", Numeral(l.width))>>
     ELSE <<Attr("WIDTH", Numeral(l.width)), Attr("HEIGHT", Numeral(l.height))>>)

\* WC="0.980" for a score of 980 thousandths
ScoreText(wc) == <<"0", ".">> \o Numeral(wc)

StringAttrs(w) ==
    <<Attr("HPOS", Numeral(6)), Attr("VPOS", Numeral(7)),
      Attr("HEIGHT", Numeral(8)), Attr("WIDTH", Numeral(9)),
      Attr("CONTENT", w.content)>> \o
    (IF w.wc >= 0 THEN <<Attr("WC", ScoreText(w.wc))>> ELSE <<>>) \o
    (IF w.subs # <<>>
     THEN <<Attr("SUBS_TYPE", <<"H", "y", "p", "P", "a", "r", "t", "1">>), Attr("SUBS_CONTENT", w.subs)>>
     ELSE <<>>)

RECURSIVE WordsMarkup(_)
WordsMarkup(words) ==
    IF Len(words) = 0 THEN <<>>
    ELSE IF Len(words) = 1 THEN <<EmptyTag("String", StringAttrs(words[1]))>>
    ELSE <<EmptyTag("String", StringAttrs(words[1])), EmptyTag("SP", <<>>)>>
         \o WordsMarkup(Tail(words))

\* a line element, written with a start tag and (if closed) an end tag
LineMarkup(l, closed) ==
    <<OpenTag("TextLine", LineAttrs(l))>> \o
    (IF l.has_polygon
     THEN <<OpenTag("Shape", <<>>), EmptyTag("Polygon", <<Attr("POINTS", l.points)>>),
            CloseTag("Shape")>>
     ELSE <<>>) \o
    WordsMarkup(l.words) \o
    (IF closed THEN <<CloseTag("TextLine")>> ELSE <<>>)

RECURSIVE LinesMarkup(_, _)
LinesMarkup(d, i) ==
    IF i > Len(d.lines) THEN <<>>
    ELSE (IF d.nested
          THEN <<OpenTag("ComposedBlock", <<>>), OpenTag("TextBlock", BlockAttrs)>>
               \o LineMarkup(d.lines[i], d.open_line # i)
               \o <<CloseTag("TextBlock"), CloseTag("ComposedBlock")>>
          ELSE LineMarkup(d.lines[i], d.open_line # i))
         \o LinesMarkup(d, i + 1)

Markup(d) ==
    <<OpenTag("Page", PageAttrs(d.page)), OpenTag("PrintSpace", <<>>)>> \o
    (IF d.nested THEN LinesMarkup(d, 1)
     ELSE <<OpenTag("TextBlock", BlockAttrs)>> \o LinesMarkup(d, 1)
          \o <<CloseTag("TextBlock")>>) \o
    <<CloseTag("PrintSpace"), CloseTag("Page")>>

----------------------------------------------------------------------------
(* Regular expressions of parse_alto_xml *)

\* a start tag (or empty-element tag) whose text begins with `<name`
StartsElement(tag, name) == tag.kind # "close" /\ tag.name = name

\* The text `k="` ends with the literal `lit="`: the attribute names of an ALTO
\* String, TextLine, Polygon and Page that end with a literal the patterns use.
EndsWithLiteral(k, lit) ==
    k = lit \/ (lit = "CONTENT" /\ k = "SUBS_CONTENT")

\* `lit="(\d+)"` or `lit="([^"]*)"` against one attribute
AttrFits(a, pe) ==
    EndsWithLiteral(a.k, pe.lit) /\ (pe.digits => MatchesDigits(a.v))

\* `[^>]*lit1="(..)"[^>]*lit2="(..)"...` inside one tag, from attribute `from`
\* on, for the pattern elements pat[k..]: the groups captured, or no match.
\* Each `[^>]*` is greedy: it stops before the last attribute that fits and
\* lets the rest match.
RECURSIVE MatchAttrs(_, _, _, _)
MatchAttrs(attrs, from, pat, k) ==
    IF k > Len(pat) THEN [ok |-> TRUE, groups |-> <<>>]
    ELSE LET fits == {j \in from..Len(attrs) :
                        /\ AttrFits(attrs[j], pat[k])
                        /\ MatchAttrs(attrs, j + 1, pat, k + 1).ok}
         IN IF fits = {} THEN [ok |-> FALSE, groups |-> <<>>]
            ELSE LET j == CHOOSE x \in fits : \A y \in fits : y <= x
                 IN [ok |-> TRUE,
                     groups |-> <<attrs[j].v>> \o MatchAttrs(attrs, j + 1, pat, k + 1).groups]

Digits(lit) == [lit |-> lit, digits |-> TRUE]
AnyText(lit) == [lit |-> lit, digits |-> FALSE]

\* r'<Page[^>]*WIDTH="(\d+)"[^>]*HEIGHT="(\d+)"'
PagePattern == <<Digits("WIDTH"), Digits("HEIGHT")>>

\* r'<TextLine[^>]*ID="([^"]*)"[^>]*HPOS="(\d+)"[^>]*VPOS="(\d+)"[^>]*HEIGHT="(\d+)"[^>]*WIDTH="(\d+)"[^>]*>([\s\S]*?)</TextLine>'
TextLinePattern ==
    <<AnyText("ID"), Digits("HPOS"), Digits("VPOS"), Digits("HEIGHT"), Digits("WIDTH")>>

\* r'<Polygon[^>]*POINTS="([^"]*)"'
PolygonPattern == <<AnyText("POINTS")>>

\* r'<String[^>]*CONTENT="([^"]*)"'
StringPattern == <<AnyText("CONTENT")>>

NoMatch == [ok |-> FALSE, groups |-> <<>>]

\* re.search(`<name` + pat, s): the first tag of s the pattern matches in
Search(name, pat, s) ==
    LET hits == {p \in 1..Len(s) :
                    /\ StartsElement(s[p], name)
                    /\ MatchAttrs(s[p].attrs, 1, pat, 1).ok}
    IN IF hits = {} THEN NoMatch
       ELSE MatchAttrs(s[CHOOSE p \in hits : \A q \in hits : p <= q].attrs, 1, pat, 1)

\* re.findall(`<name` + pat, s) for a pattern of one group: the group of every
\* match, in the order of the text
RECURSIVE FindAll(_, _, _)
FindAll(name, pat, s) ==
    IF Len(s) = 0 THEN <<>>
    ELSE LET m == IF StartsElement(s[1], name)
                  THEN MatchAttrs(s[1].attrs, 1, pat, 1) ELSE NoMatch
         IN (IF m.ok THEN <<m.groups[1]>> ELSE <<>>) \o FindAll(name, pat, Tail(s))

\* the positions of the end tags `</TextLine>` after position p
EndTagsAfter(s, p) ==
    {q \in (p + 1)..Len(s) : s[q].kind = "close" /\ s[q].name = "TextLine"}

\* text_line_pattern matched at the tag at position p: groups 1 to 5 from the
\* attributes of that tag, group 6 the text up to the first end tag after it
TextLineMatchAt(s, p) ==
    LET m == IF StartsElement(s[p], "TextLine")
             THEN MatchAttrs(s[p].attrs, 1, TextLinePattern, 1) ELSE NoMatch
        ends == EndTagsAfter(s, p)
    IN IF m.ok /\ ends # {}
       THEN LET e == CHOOSE q \in ends : \A r \in ends : q <= r
            IN [ok |-> TRUE, groups |-> m.groups, content |-> SubSeq(s, p + 1, e - 1),
                end |-> e]
       ELSE [ok |-> FALSE, groups |-> <<>>, content |-> <<>>, end |-> p]

\* text_line_pattern.finditer(s) from position p on: matches do not overlap
RECURSIVE FindIter(_, _)
FindIter(s, p) ==
    IF p > Len(s) THEN <<>>
    ELSE LET m == TextLineMatchAt(s, p)
         IN IF m.ok THEN <<m>> \o FindIter(s, m.end + 1)
            ELSE FindIter(s, p + 1)

\* len(re.findall(r'<TextLine\b', s))
SimpleCount(s) == Cardinality({p \in 1..Len(s) : StartsElement(s[p], "TextLine")})

----------------------------------------------------------------------------
(* parse_alto_xml *)

DEFAULT_PAGE_WIDTH == 6192
DEFAULT_PAGE_HEIGHT == 5432

\* m.group(n) of the result of re.search: AttributeError on None
Group(m, n) ==
    IF m.ok THEN [raised |-> "none", value |-> m.groups[n]]
    ELSE [raised |-> "AttributeError", value |-> <<>>]

\* PageDimensions with the two defaults exchanged
PageDimensionsDefaultsSwapped(s) ==
    LET page_match == Search("Page", PagePattern, s)
    IN IF page_match.ok
       THEN [raised |-> "none",
             width |-> int(Group(page_match, 1).value),
             height |-> int(Group(page_match, 2).value)]
       ELSE [raised |-> "none",
             width |-> DEFAULT_PAGE_HEIGHT, height |-> DEFAULT_PAGE_WIDTH]

\* page_match and the dimensions taken from it
PageDimensions(s) ==
    LET page_match == Search("Page", PagePattern, s)
    IN IF page_match.ok
       THEN [raised |-> "none",
             width |-> int(Group(page_match, 1).value),
             height |-> int(Group(page_match, 2).value)]
       ELSE [raised |-> "none",
             width |-> DEFAULT_PAGE_WIDTH, height |-> DEFAULT_PAGE_HEIGHT]

\* PolygonOf without the test of polygon_match
PolygonOfUnguarded(line_content) ==
    Group(Search("Polygon", PolygonPattern, line_content), 1)

\* polygon = polygon_match.group(1) if polygon_match else ""
PolygonOf(line_content) ==
    LET polygon_match == Search("Polygon", PolygonPattern, line_content)
    IN IF polygon_match.ok THEN Group(polygon_match, 1)
       ELSE [raised |-> "none", value |-> <<>>]

\* words = re.findall(...); transcription = " ".join(words)
WordsOf(line_content) == FindAll("String", StringPattern, line_content)

TranscriptionOf(line_content) == join(SPACE, WordsOf(line_content))

\* Keep with `or` for `and`
KeepEither(polygon, transcription) == polygon # <<>> \/ transcription # <<>>

\* if polygon and transcription:
Keep(polygon, transcription) == polygon # <<>> /\ transcription # <<>>

\* TextLine with groups 4 and 5 taken as WIDTH and HEIGHT
TextLineGroupsSwapped(match, polygon, transcription) ==
    [id |-> match.groups[1],
     polygon |-> polygon,
     transcription |-> transcription,
     hpos |-> int(match.groups[2]),
     vpos |-> int(match.groups[3]),
     width |-> int(match.groups[4]),
     height |-> int(match.groups[5])]

\* TextLine(id=..., polygon=..., transcription=..., hpos=..., vpos=..., width=..., height=...)
TextLine(match, polygon, transcription) ==
    [id |-> match.groups[1],
     polygon |-> polygon,
     transcription |-> transcription,
     hpos |-> int(match.groups[2]),
     vpos |-> int(match.groups[3]),
     width |-> int(match.groups[5]),
     height |-> int(match.groups[4])]

\* AltoData with full_text joined by spaces
AltoDataSpaceJoined(lines, width, height, transcriptions) ==
    [text_lines |-> lines, page_width |-> width, page_height |-> height,
     full_text |-> join(SPACE, transcriptions)]

\* AltoData(text_lines=..., page_width=..., page_height=..., full_text="\n".join(...))
AltoData(lines, width, height, transcriptions) ==
    [text_lines |-> lines, page_width |-> width, page_height |-> height,
     full_text |-> join(NEWLINE, transcriptions)]

NoResult == AltoData(<<>>, 0, 0, <<>>)

\* nothing but the one call of parse_alto_xml is going on
EnvIdle ==
    /\ fmt = "idle"
    /\ calls = "idle"
    /\ tool = "idle"
    /\ cache = "idle"
    /\ requests = "idle"
    /\ workers = "idle"

Init ==
    /\ doc \in Docs
    /\ xml_string = Markup(doc)
    /\ pc = "page"
    /\ page_width = 0
    /\ page_height = 0
    /\ raw_matches = <<>>
    /\ regex_mismatch = FALSE
    /\ next_match = 1
    /\ text_lines = <<>>
    /\ transcription_lines = <<>>
    /\ skipped_no_polygon = 0
    /\ skipped_no_transcription = 0
    /\ result = NoResult
    /\ exc = "none"
    /\ EnvIdle

\* an exception leaves the call
Raise(e) ==
    /\ pc' = "raised"
    /\ exc' = e
    /\ UNCHANGED <<doc, xml_string, page_width, page_height, raw_matches, regex_mismatch,
                   next_match, text_lines, transcription_lines, skipped_no_polygon,
                   skipped_no_transcription, result>>

\* lines 54-63: the page dimensions, or the defaults
ExtractPageDimensions ==
    /\ pc = "page"
    /\ UNCHANGED env_vars
    /\ LET dims == PageDimensions(xml_string)
       IN IF dims.raised # "none" THEN Raise(dims.raised)
          ELSE /\ page_width' = dims.width
               /\ page_height' = dims.height
               /\ pc' = "lines"
               /\ UNCHANGED <<doc, xml_string, raw_matches, regex_mismatch, next_match,
                              text_lines, transcription_lines, skipped_no_polygon,
                              skipped_no_transcription, result, exc>>

\* lines 65-84: every match of the line pattern, and the mismatch warning
FindTextLines ==
    /\ pc = "lines"
    /\ UNCHANGED env_vars
    /\ raw_matches' = FindIter(xml_string, 1)
    /\ regex_mismatch' = (SimpleCount(xml_string) > 0 /\ Len(raw_matches') = 0)
    /\ pc' = "loop"
    /\ UNCHANGED <<doc, xml_string, page_width, page_height, next_match, text_lines,
                   transcription_lines, skipped_no_polygon, skipped_no_transcription,
                   result, exc>>

\* lines 86-119: one turn of the loop over raw_matches
ProcessMatch ==
    /\ pc = "loop"
    /\ UNCHANGED env_vars
    /\ next_match <= Len(raw_matches)
    /\ LET match == raw_matches[next_match]
           polygon == PolygonOf(match.content)
           transcription == TranscriptionOf(match.content)
       IN IF polygon.raised # "none" THEN Raise(polygon.raised)
          ELSE /\ skipped_no_polygon' =
                      skipped_no_polygon + (IF polygon.value = <<>> THEN 1 ELSE 0)
               /\ skipped_no_transcription' =
                      skipped_no_transcription + (IF transcription = <<>> THEN 1 ELSE 0)
               /\ IF Keep(polygon.value, transcription)
                  THEN /\ text_lines' =
                              Append(text_lines, TextLine(match, polygon.value, transcription))
                       /\ transcription_lines' = Append(transcription_lines, transcription)
                  ELSE UNCHANGED <<text_lines, transcription_lines>>
               /\ next_match' = next_match + 1
               /\ UNCHANGED <<doc, xml_string, pc, page_width, page_height, raw_matches,
                              regex_mismatch, result, exc>>

\* lines 129-134: the result
Return ==
    /\ pc = "loop"
    /\ UNCHANGED env_vars
    /\ next_match > Len(raw_matches)
    /\ result' = AltoData(text_lines, page_width, page_height, transcription_lines)
    /\ pc' = "done"
    /\ UNCHANGED <<doc, xml_string, page_width, page_height, raw_matches, regex_mismatch,
                   next_match, text_lines, transcription_lines, skipped_no_polygon,
                   skipped_no_transcription, exc>>

Next == ExtractPageDimensions \/ FindTextLines \/ ProcessMatch \/ Return

Spec == Init /\ [][Next]_vars

\* the whole call as a function of the markup
RECURSIVE Retained(_, _)
Retained(matches, i) ==
    IF i > Len(matches) THEN <<>>
    ELSE LET polygon == PolygonOf(matches[i].content).value
             transcription == TranscriptionOf(matches[i].content)
         IN (IF Keep(polygon, transcription)
             THEN <<TextLine(matches[i], polygon, transcription)>> ELSE <<>>)
            \o Retained(matches, i + 1)

parse_alto_xml(s) ==
    LET lines == Retained(FindIter(s, 1), 1)
        dims == PageDimensions(s)
    IN AltoData(lines, dims.width, dims.height,
                [i \in 1..Len(lines) |-> lines[i].transcription])

----------------------------------------------------------------------------
(* What the document says, read from doc and not from the markup *)

\* every end tag is present
WellFormed == doc.open_line = 0

Elements == {doc.lines[i] : i \in 1..Len(doc.lines)}

\* the text contents of the words of a line element, one space between two
RECURSIVE ContentJoined(_)
ContentJoined(words) ==
    IF Len(words) = 0 THEN <<>>
    ELSE IF Len(words) = 1 THEN words[1].content
    ELSE ContentJoined(SubSeq(words, 1, Len(words) - 1)) \o <<" ">>
         \o words[Len(words)].content

\* the line element has a non-empty polygon and a non-empty transcription
Qualifies(l) == l.has_polygon /\ l.points # <<>> /\ ContentJoined(l.words) # <<>>

\* the identifiers of the qualifying line elements, in document order
RECURSIVE QualifyingIds(_)
QualifyingIds(lines) ==
    IF Len(lines) = 0 THEN <<>>
    ELSE (IF Qualifies(lines[1]) THEN <<lines[1].id>> ELSE <<>>)
         \o QualifyingIds(Tail(lines))

Ids(lines) == [i \in 1..Len(lines) |-> lines[i].id]

\* the line element a returned line was read from
ElementOf(t) == CHOOSE l \in Elements : l.id = t.id

\* the transcriptions of the returned lines, a newline between two
RECURSIVE NewlineJoined(_)
NewlineJoined(lines) ==
    IF Len(lines) = 0 THEN <<>>
    ELSE IF Len(lines) = 1 THEN lines[1].transcription
    ELSE NewlineJoined(SubSeq(lines, 1, Len(lines) - 1)) \o <<"\n">>
         \o lines[Len(lines)].transcription

Finished == pc \in {"done", "raised"}

----------------------------------------------------------------------------
(* Properties *)

\* C1 - Retention invariant: every line kept so far, and every line of the
\* result, has a non-empty polygon and a non-empty transcription, for every
\* markup; and in a document with every end tag present each of them was read
\* from a line element that has both.
RetentionInvariant ==
    /\ \A i \in 1..Len(text_lines) :
          text_lines[i].polygon # <<>> /\ text_lines[i].transcription # <<>>
    /\ \A i \in 1..Len(result.text_lines) :
          result.text_lines[i].polygon # <<>> /\ result.text_lines[i].transcription # <<>>
    /\ WellFormed =>
          \A i \in 1..Len(text_lines) :
              \E l \in Elements : l.id = text_lines[i].id /\ Qualifies(l)

\* C1 witness: a parse that kept a line and dropped one lacking polygon or text
RetentionWitness ==
    /\ pc = "done" /\ WellFormed
    /\ Len(result.text_lines) = 1
    /\ \E l \in Elements : l.order = "std" /\ ~Qualifies(l)

\* C2 - the returned lines are exactly the qualifying line elements, in
\* document order, whatever the nesting and the order of the attributes
LinesInDocumentOrder ==
    (pc = "done" /\ WellFormed) => Ids(result.text_lines) = QualifyingIds(doc.lines)

\* C3 - declared page dimensions are returned, and the defaults are used only
\* when the page element declares none
DeclaredPageDimensions ==
    pc = "done" =>
        /\ doc.page # "none" =>
              result.page_width = DeclaredWidth /\ result.page_height = DeclaredHeight
        /\ (result.page_width = 6192 /\ result.page_height = 5432) => doc.page = "none"

\* C4 - Default dimensions: without declared page dimensions the call raises
\* nothing, returns 6192 x 5432, and returns the lines and the full text it
\* returns for the same document with declared dimensions
DefaultDimensions ==
    (Finished /\ doc.page = "none") =>
        /\ pc = "done" /\ exc = "none"
        /\ result.page_width = 6192
        /\ result.page_height = 5432
        /\ LET declared == parse_alto_xml(Markup([doc EXCEPT !.page = "wh"]))
           IN /\ declared.page_width = DeclaredWidth
              /\ result.text_lines = declared.text_lines
              /\ result.full_text = declared.full_text

\* C4 witness: a page without dimensions parsed to a result with lines
DefaultDimensionsWitness ==
    pc = "done" /\ doc.page = "none" /\ Len(result.text_lines) = 2

\* C5 - Word joining: the transcription of a returned line is the text
\* contents of the words of its line element, in order, one space between two
WordJoining ==
    (pc = "done" /\ WellFormed) =>
        \A i \in 1..Len(result.text_lines) :
            result.text_lines[i].transcription =
                ContentJoined(ElementOf(result.text_lines[i]).words)

\* C6 - full_text is the transcriptions of text_lines, in order, joined by one
\* newline, and empty when there are no lines
FullTextIsJoin ==
    pc = "done" =>
        /\ result.full_text = NewlineJoined(result.text_lines)
        /\ result.text_lines = <<>> => result.full_text = <<>>

\* C6 witness: a result of two lines from a document
FullTextWitness ==
    /\ pc = "done" /\ Len(result.text_lines) = 2
    /\ result.full_text =
          result.text_lines[1].transcription \o <<"\n">> \o result.text_lines[2].transcription

\* the WC scores the words of a line element declare, in thousandths
RECURSIVE DeclaredScores(_)
DeclaredScores(words) ==
    IF Len(words) = 0 THEN <<>>
    ELSE (IF words[1].wc >= 0 THEN <<words[1].wc>> ELSE <<>>)
         \o DeclaredScores(Tail(words))

RECURSIVE Sum(_)
Sum(ns) == IF Len(ns) = 0 THEN 0 ELSE ns[1] + Sum(Tail(ns))

HasConfidence(t) == "confidence" \in DOMAIN t

\* C7 - Confidence aggregation: a returned line whose words declare scores
\* carries their mean (confidence in millionths, within one millionth), and a
\* line whose words declare none carries no confidence
ConfidenceAggregation ==
    (pc = "done" /\ WellFormed) =>
        \A i \in 1..Len(result.text_lines) :
            LET t == result.text_lines[i]
                scores == DeclaredScores(ElementOf(t).words)
                n == Len(scores)
            IN IF n = 0 THEN ~HasConfidence(t)
               ELSE /\ HasConfidence(t)
                    /\ n * t.confidence - 1000 * Sum(scores) \in (0 - n)..n

\* C8 - Malformed input: a line element with no end tag, so that no line can
\* be extracted, makes the call fail with MarkupError
MalformedRaisesMarkupError ==
    (Finished /\ ~WellFormed /\ Len(raw_matches) = 0) => exc = "MarkupError"

\* C9 - Missing information is never an exception: no call raises, and a
\* document with every end tag present in which no line qualifies gives no
\* lines and an empty full text
MissingIsNoException ==
    /\ pc # "raised" /\ exc = "none"
    /\ (pc = "done" /\ WellFormed /\ \A l \in Elements : ~Qualifies(l)) =>
          result.text_lines = <<>> /\ result.full_text = <<>>

\* C9 witness: a page without dimensions whose only lines lack polygon or text
MissingWitness ==
    /\ pc = "done" /\ WellFormed /\ doc.page = "none"
    /\ Len(doc.lines) = 2
    /\ \E l \in Elements : l.order = "std" /\ ~l.has_polygon
    /\ \E l \in Elements : l.order = "std" /\ l.words = <<>>
    /\ result.text_lines = <<>>

\* C10 - Explicit bounds: a returned line carries the ID, HPOS, VPOS, WIDTH and
\* HEIGHT of one and the same line element, the one its polygon is from
ExplicitBounds ==
    (pc = "done" /\ WellFormed) =>
        \A i \in 1..Len(result.text_lines) :
            LET t == result.text_lines[i]
            IN \E l \in Elements :
                  /\ t.id = l.id
                  /\ t.hpos = l.hpos /\ t.vpos = l.vpos
                  /\ t.width = l.width /\ t.height = l.height
                  /\ t.polygon = l.points

\* C10 witness: two neighbouring lines, each inside a block with bounds of its
\* own and with words with bounds of their own, both returned
ExplicitBoundsWitness ==
    pc = "done" /\ WellFormed /\ doc.nested /\ Len(result.text_lines) = 2

----------------------------------------------------------------------------
(* The second copy of the ALTO parser (server.py) *)

\* r'<Page[^>]*WIDTH="(\d+)"[^>]*HEIGHT="(\d+)"' (server.py)
ServerPagePattern == <<Digits("WIDTH"), Digits("HEIGHT")>>

\* text_line_pattern of server.py
ServerTextLinePattern ==
    <<AnyText("ID"), Digits("HPOS"), Digits("VPOS"), Digits("HEIGHT"), Digits("WIDTH")>>

\* text_line_pattern of server.py matched at the tag at position p
ServerTextLineMatchAt(s, p) ==
    LET m == IF StartsElement(s[p], "TextLine")
             THEN MatchAttrs(s[p].attrs, 1, ServerTextLinePattern, 1) ELSE NoMatch
        ends == EndTagsAfter(s, p)
    IN IF m.ok /\ ends # {}
       THEN LET e == CHOOSE q \in ends : \A r \in ends : q <= r
            IN [ok |-> TRUE, groups |-> m.groups, content |-> SubSeq(s, p + 1, e - 1),
                end |-> e]
       ELSE [ok |-> FALSE, groups |-> <<>>, content |-> <<>>, end |-> p]

\* text_line_pattern.finditer(xml_string) of server.py
RECURSIVE ServerFindIter(_, _)
ServerFindIter(s, p) ==
    IF p > Len(s) THEN <<>>
    ELSE LET m == ServerTextLineMatchAt(s, p)
         IN IF m.ok THEN <<m>> \o ServerFindIter(s, m.end + 1)
            ELSE ServerFindIter(s, p + 1)

\* ServerTextLine with hpos and vpos exchanged
ServerTextLinePositionsSwapped(match, polygon, transcription) ==
    [id |-> match.groups[1],
     polygon |-> polygon,
     transcription |-> transcription,
     hpos |-> int(match.groups[3]),
     vpos |-> int(match.groups[2]),
     width |-> int(match.groups[5]),
     height |-> int(match.groups[4])]

\* the dataclass TextLine of server.py, as the loop fills it
ServerTextLine(match, polygon, transcription) ==
    [id |-> match.groups[1],
     polygon |-> polygon,
     transcription |-> transcription,
     hpos |-> int(match.groups[2]),
     vpos |-> int(match.groups[3]),
     width |-> int(match.groups[5]),
     height |-> int(match.groups[4])]

\* the loop of server.py over the matches, from match i on
RECURSIVE ServerLoop(_, _)
ServerLoop(matches, i) ==
    IF i > Len(matches) THEN <<>>
    ELSE LET line_content == matches[i].content
             polygon_match == Search("Polygon", <<AnyText("POINTS")>>, line_content)
             polygon == IF polygon_match.ok THEN polygon_match.groups[1] ELSE <<>>
             words == FindAll("String", <<AnyText("CONTENT")>>, line_content)
             transcription == join(<<" ">>, words)
         IN (IF polygon # <<>> /\ transcription # <<>>
             THEN <<ServerTextLine(matches[i], polygon, transcription)>> ELSE <<>>)
            \o ServerLoop(matches, i + 1)

\* parse_alto_xml of server.py
server_parse_alto_xml(s) ==
    LET page_match == Search("Page", ServerPagePattern, s)
        lines == ServerLoop(ServerFindIter(s, 1), 1)
    IN [text_lines |-> lines,
        page_width |-> IF page_match.ok THEN int(page_match.groups[1]) ELSE 6192,
        page_height |-> IF page_match.ok THEN int(page_match.groups[2]) ELSE 5432,
        full_text |-> join(<<"\n">>, [i \in 1..Len(lines) |-> lines[i].transcription])]

----------------------------------------------------------------------------
(* PAGE XML documents *)

TextNode(c) == [kind |-> "text", name |-> "#text", attrs |-> <<Attr("#text", c)>>]

\* the outlines of the lines of the PAGE documents, as lists of (x, y)
Polygons ==
    {<<<<355, 250>>, <<400, 203>>, <<1200, 260>>>>,
     <<<<30, 5>>, <<10, 20>>, <<25, 7>>, <<10, 5>>>>,
     <<<<7, 9>>>>}

\* "x1,y1 x2,y2 ..." as the points attribute of Coords is written
PointsText(coords) ==
    join(SPACE, [i \in 1..Len(coords) |->
                    Numeral(coords[i][1]) \o <<",">> \o Numeral(coords[i][2])])

PageLine(i, has_coords, coords, text, conf) ==
    [id |-> <<"l">> \o Numeral(i), has_coords |-> has_coords, coords |-> coords,
     text |-> text, conf |-> conf]

\* the coordinates of the outline "1,2 3,4" of the ALTO documents
POINTS_COORDS == <<<<1, 2>>, <<3, 4>>>>

\* the text contents of the words of an ALTO line, as PAGE writes them in Unicode
RECURSIVE LineText(_)
LineText(words) ==
    IF Len(words) = 0 THEN <<>>
    ELSE IF Len(words) = 1 THEN words[1].content
    ELSE words[1].content \o <<" ">> \o LineText(Tail(words))

RECURSIVE ScoreSum(_)
ScoreSum(words) ==
    IF Len(words) = 0 THEN [n |-> 0, sum |-> 0]
    ELSE LET rest == ScoreSum(Tail(words))
         IN IF words[1].wc >= 0
            THEN [n |-> rest.n + 1, sum |-> rest.sum + words[1].wc]
            ELSE rest

\* the PAGE document that encodes the page of the ALTO document d
PageOf(d) ==
    [declared |-> d.page # "none",
     lines |-> [i \in 1..Len(d.lines) |->
                  LET l == d.lines[i]
                      sc == ScoreSum(l.words)
                  IN PageLine(i, l.has_polygon,
                              IF l.points = POINTS THEN POINTS_COORDS ELSE <<>>,
                              LineText(l.words),
                              IF sc.n = 0 THEN -1 ELSE sc.sum \div sc.n)]]

\* PAGE documents of up to MaxLines lines with every outline, with and without text
PolygonLineChoices ==
    ({TRUE} \X (Polygons \cup {<<>>}) \X {Sedan.content \o <<" ">> \o Han.content, <<>>})
    \cup {<<FALSE, <<>>, Och.content>>}

PolygonDocs ==
    {[declared |-> TRUE,
      lines |-> [i \in 1..Len(c) |->
                    PageLine(i, c[i][1], c[i][2], c[i][3], IF i = 1 THEN 986 ELSE -1)]] :
        c \in SeqsUpTo(PolygonLineChoices, MaxLines)}

PageLineMarkup(l) ==
    <<OpenTag("TextLine", <<Attr("id", l.id)>>)>> \o
    (IF l.has_coords THEN <<EmptyTag("Coords", <<Attr("points", PointsText(l.coords))>>)>>
     ELSE <<>>) \o
    <<OpenTag("TextEquiv", IF l.conf >= 0 THEN <<Attr("conf", ScoreText(l.conf))>> ELSE <<>>),
      OpenTag("Unicode", <<>>)>> \o
    (IF l.text # <<>> THEN <<TextNode(l.text)>> ELSE <<>>) \o
    <<CloseTag("Unicode"), CloseTag("TextEquiv"), CloseTag("TextLine")>>

RECURSIVE PageLinesMarkup(_, _)
PageLinesMarkup(lines, i) ==
    IF i > Len(lines) THEN <<>>
    ELSE PageLineMarkup(lines[i]) \o PageLinesMarkup(lines, i + 1)

\* a PAGE XML document
PageDocument(pd) ==
    <<OpenTag("PcGts", <<Attr("xmlns", <<"p", "a", "g", "e">>)>>),
      OpenTag("Page", <<Attr("imageFilename", <<"f">>)>> \o
                      (IF pd.declared
                       THEN <<Attr("imageWidth", Numeral(DeclaredWidth)),
                              Attr("imageHeight", Numeral(DeclaredHeight))>>
                       ELSE <<>>)),
      OpenTag("TextRegion", <<Attr("id", <<"r">>)>>)>> \o
    PageLinesMarkup(pd.lines, 1) \o
    <<CloseTag("TextRegion"), CloseTag("Page"), CloseTag("PcGts")>>

\* an ALTO document: the page inside the root element and Layout
AltoDocument(d) ==
    <<OpenTag("alto", <<Attr("xmlns", <<"a", "l", "t", "o">>)>>), OpenTag("Layout", <<>>)>>
    \o Markup(d) \o <<CloseTag("Layout"), CloseTag("alto")>>

----------------------------------------------------------------------------
(* Geometry utilities, PAGE XML parser and format detector (src.parser) *)

\* the pieces of s between the separators sep
RECURSIVE SplitOn(_, _)
SplitOn(s, sep) ==
    LET at == {k \in 1..Len(s) : s[k] = sep}
    IN IF at = {} THEN <<s>>
       ELSE LET k == CHOOSE x \in at : \A y \in at : x <= y
            IN <<SubSeq(s, 1, k - 1)>> \o SplitOn(SubSeq(s, k + 1, Len(s)), sep)

\* the points of "x1,y1 x2,y2 ...", in order
ParsePoints(text) ==
    IF text = <<>> THEN <<>>
    ELSE LET parts == SplitOn(text, " ")
         IN [i \in 1..Len(parts) |->
                LET xy == SplitOn(parts[i], ",") IN <<int(xy[1]), int(xy[2])>>]

RECURSIVE MinOf(_)
MinOf(ns) ==
    IF Len(ns) = 1 THEN ns[1]
    ELSE LET m == MinOf(Tail(ns)) IN IF ns[1] < m THEN ns[1] ELSE m

RECURSIVE MaxOf(_)
MaxOf(ns) ==
    IF Len(ns) = 1 THEN ns[1]
    ELSE LET m == MaxOf(Tail(ns)) IN IF ns[1] > m THEN ns[1] ELSE m

\* boundingBoxFromPolygon counting pixels: max - min + 1
BoundingBoxInclusive(points) ==
    LET xs == [i \in 1..Len(points) |-> points[i][1]]
        ys == [i \in 1..Len(points) |-> points[i][2]]
    IN [hpos |-> MinOf(xs), vpos |-> MinOf(ys),
        width |-> MaxOf(xs) - MinOf(xs) + 1, height |-> MaxOf(ys) - MinOf(ys) + 1]

\* boundingBoxFromPolygon of a non-empty list of points
BoundingBox(points) ==
    LET xs == [i \in 1..Len(points) |-> points[i][1]]
        ys == [i \in 1..Len(points) |-> points[i][2]]
    IN [hpos |-> MinOf(xs), vpos |-> MinOf(ys),
        width |-> MaxOf(xs) - MinOf(xs), height |-> MaxOf(ys) - MinOf(ys)]

\* the value of attribute k of a tag, empty when the tag has none
AttrValue(tag, k) ==
    LET at == {j \in 1..Len(tag.attrs) : tag.attrs[j].k = k}
    IN IF at = {} THEN <<>> ELSE tag.attrs[CHOOSE j \in at : TRUE].v

HasAttr(tag, k) == \E j \in 1..Len(tag.attrs) : tag.attrs[j].k = k

\* the first element of the given name in s, or no tag
FirstElement(s, name) ==
    LET at == {p \in 1..Len(s) : s[p].kind # "close" /\ s[p].name = name}
    IN IF at = {} THEN [found |-> FALSE, tag |-> EmptyTag(name, <<>>)]
       ELSE [found |-> TRUE, tag |-> s[CHOOSE p \in at : \A q \in at : p <= q]]

\* the text of every Unicode element of a line, in order
RECURSIVE UnicodeTexts(_, _)
UnicodeTexts(content, q) ==
    IF q > Len(content) THEN <<>>
    ELSE (IF /\ content[q].kind = "open" /\ content[q].name = "Unicode"
             /\ q < Len(content) /\ content[q + 1].kind = "text"
          THEN <<content[q + 1].attrs[1].v>> ELSE <<>>)
         \o UnicodeTexts(content, q + 1)

\* "0.986" as thousandths
ScoreValue(text) == int(SubSeq(text, 3, Len(text)))

\* the TextLine of one PAGE line element, or nothing when it is not retained
PageTextLine(tag, content) ==
    LET coords == FirstElement(content, "Coords")
        polygon == IF coords.found THEN AttrValue(coords.tag, "points") ELSE <<>>
        transcription == join(SPACE, UnicodeTexts(content, 1))
        equiv == FirstElement(content, "TextEquiv")
    IN IF polygon # <<>> /\ transcription # <<>>
       THEN LET box == BoundingBox(ParsePoints(polygon))
                line == [id |-> AttrValue(tag, "id"), polygon |-> polygon,
                         transcription |-> transcription,
                         hpos |-> box.hpos, vpos |-> box.vpos,
                         width |-> box.width, height |-> box.height]
            IN IF equiv.found /\ HasAttr(equiv.tag, "conf")
               THEN <<line @@ [confidence |-> ScoreValue(AttrValue(equiv.tag, "conf"))]>>
               ELSE <<line>>
       ELSE <<>>

\* the line elements of a PAGE document from position p on, in document order
RECURSIVE PageLines(_, _)
PageLines(s, p) ==
    IF p > Len(s) THEN <<>>
    ELSE IF s[p].kind = "open" /\ s[p].name = "TextLine"
         THEN LET ends == EndTagsAfter(s, p)
                  e == CHOOSE q \in ends : \A r \in ends : q <= r
              IN PageTextLine(s[p], SubSeq(s, p + 1, e - 1)) \o PageLines(s, e + 1)
         ELSE PageLines(s, p + 1)

parse_page_xml(s) ==
    LET page == FirstElement(s, "Page")
        declared == page.found /\ HasAttr(page.tag, "imageWidth")
                               /\ HasAttr(page.tag, "imageHeight")
        lines == PageLines(s, 1)
    IN [text_lines |-> lines,
        page_width |-> IF declared THEN int(AttrValue(page.tag, "imageWidth")) ELSE 6192,
        page_height |-> IF declared THEN int(AttrValue(page.tag, "imageHeight")) ELSE 5432,
        full_text |-> join(NEWLINE, [i \in 1..Len(lines) |-> lines[i].transcription])]

\* DetectFormat that takes every document with a Page element for ALTO
DetectFormatByPage(s) ==
    IF FirstElement(s, "Page").found THEN "alto" ELSE "unknown"

\* the schema the root element of the markup belongs to
DetectFormat(s) ==
    IF Len(s) = 0 THEN "unknown"
    ELSE IF s[1].name = "alto" THEN "alto"
    ELSE IF s[1].name = "PcGts" THEN "page"
    ELSE "unknown"

Returned(data) == [exc |-> "none", data |-> data]
Failed(e) == [exc |-> e, data |-> NoResult]

detect_and_parse(s) ==
    LET format == DetectFormat(s)
    IN IF format = "alto" THEN Returned(parse_alto_xml(s))
       ELSE IF format = "page" THEN Returned(parse_page_xml(s))
       ELSE Failed("UnsupportedFormat")

----------------------------------------------------------------------------
(* The parsers applied to one page: both ALTO parsers, the PAGE XML parser
   and the format detector, one call after the other *)

\* no single call of parse_alto_xml is being followed step by step
ParserIdle ==
    /\ pc = "idle"
    /\ page_width = 0
    /\ page_height = 0
    /\ raw_matches = <<>>
    /\ regex_mismatch = FALSE
    /\ next_match = 1
    /\ text_lines = <<>>
    /\ transcription_lines = <<>>
    /\ skipped_no_polygon = 0
    /\ skipped_no_transcription = 0
    /\ result = NoResult
    /\ exc = "none"

\* an ALTO document of the code's attribute order without hyphenation
BaseDoc ==
    [page |-> "wh", nested |-> FALSE, open_line |-> 0,
     lines |-> <<Line(1, "ok", <<Sedan, Han>>)>>]

\* the pairs of an ALTO document and a PAGE document that are parsed
FormatInputs ==
    {<<d, PageOf(d)>> : d \in Docs} \cup {<<BaseDoc, pd>> : pd \in PolygonDocs}

NotCalled == Failed("not called")

InitFormats ==
    /\ \E pair \in FormatInputs :
          /\ doc = pair[1]
          /\ fmt = [pc |-> "alto", page_doc |-> pair[2], page_xml |-> PageDocument(pair[2]),
                    alto |-> NotCalled, server |-> NoResult, page |-> NotCalled,
                    detect_alto |-> NotCalled, detect_page |-> NotCalled]
    /\ xml_string = AltoDocument(doc)
    /\ ParserIdle
    /\ calls = "idle" /\ tool = "idle"
    /\ cache = "idle" /\ requests = "idle" /\ workers = "idle"

formats_unchanged == <<parser_vars, calls, tool, cache, requests, workers>>

\* parse_alto_xml(alto_xml) of src/alto.py
ParseAlto ==
    /\ fmt.pc = "alto"
    /\ fmt' = [fmt EXCEPT !.alto = Returned(parse_alto_xml(xml_string)), !.pc = "server"]
    /\ UNCHANGED formats_unchanged

\* parse_alto_xml(alto_xml) of server.py
ParseAltoServer ==
    /\ fmt.pc = "server"
    /\ fmt' = [fmt EXCEPT !.server = server_parse_alto_xml(xml_string), !.pc = "page"]
    /\ UNCHANGED formats_unchanged

\* parse_page_xml(page_xml)
ParsePage ==
    /\ fmt.pc = "page"
    /\ fmt' = [fmt EXCEPT !.page = Returned(parse_page_xml(fmt.page_xml)),
                          !.pc = "detect_alto"]
    /\ UNCHANGED formats_unchanged

\* detect_and_parse(alto_xml)
DetectAndParseAlto ==
    /\ fmt.pc = "detect_alto"
    /\ fmt' = [fmt EXCEPT !.detect_alto = detect_and_parse(xml_string),
                          !.pc = "detect_page"]
    /\ UNCHANGED formats_unchanged

\* detect_and_parse(page_xml)
DetectAndParsePage ==
    /\ fmt.pc = "detect_page"
    /\ fmt' = [fmt EXCEPT !.detect_page = detect_and_parse(fmt.page_xml), !.pc = "done"]
    /\ UNCHANGED formats_unchanged

NextFormats ==
    \/ ParseAlto
    \/ ParseAltoServer
    \/ ParsePage
    \/ DetectAndParseAlto
    \/ DetectAndParsePage

SpecFormats == InitFormats /\ [][NextFormats]_vars

PageParsed == fmt.pc \in {"detect_alto", "detect_page", "done"}

\* the x and the y coordinates of the outline of a line of the PAGE document
Xs(l) == {l.coords[i][1] : i \in 1..Len(l.coords)}
Ys(l) == {l.coords[i][2] : i \in 1..Len(l.coords)}

\* the line of the PAGE document that a returned line was read from
PageElementOf(t) ==
    CHOOSE l \in {fmt.page_doc.lines[i] : i \in 1..Len(fmt.page_doc.lines)} : l.id = t.id

\* C11 - Bounding-box derivation: every line the PAGE XML parser returns has
\* hpos and vpos at the least x and the least y of the points of its polygon,
\* hpos + width and vpos + height at the greatest x and the greatest y, and
\* none of the four is negative
BoundingBoxDerivation ==
    PageParsed =>
        \A i \in 1..Len(fmt.page.data.text_lines) :
            LET t == fmt.page.data.text_lines[i]
                l == PageElementOf(t)
            IN /\ t.hpos \in Xs(l) /\ \A x \in Xs(l) : t.hpos <= x
               /\ t.vpos \in Ys(l) /\ \A y \in Ys(l) : t.vpos <= y
               /\ t.hpos + t.width \in Xs(l) /\ \A x \in Xs(l) : x <= t.hpos + t.width
               /\ t.vpos + t.height \in Ys(l) /\ \A y \in Ys(l) : y <= t.vpos + t.height
               /\ t.hpos >= 0 /\ t.vpos >= 0 /\ t.width >= 0 /\ t.height >= 0

\* C11 witness: a PAGE line with the outline (355,250) (400,203) (1200,260)
\* was returned with the box 355, 203, 845, 57
BoundingBoxWitness ==
    /\ PageParsed
    /\ \E i \in 1..Len(fmt.page.data.text_lines) :
          LET t == fmt.page.data.text_lines[i]
          IN /\ Len(PageElementOf(t).coords) = 3
             /\ t.hpos = 355 /\ t.vpos = 203 /\ t.width = 845 /\ t.height = 57

\* C12 - Format auto-detection is pure dispatch: detect_and_parse returns for
\* the ALTO document what parse_alto_xml returns for it, and for the PAGE XML
\* document what parse_page_xml returns for it
PureDispatch ==
    fmt.pc = "done" =>
        /\ fmt.detect_alto = fmt.alto
        /\ fmt.detect_page = fmt.page

\* C12 witness: both documents went through the detector and gave lines
PureDispatchWitness ==
    /\ fmt.pc = "done"
    /\ fmt.detect_alto.exc = "none" /\ Len(fmt.detect_alto.data.text_lines) = 2
    /\ fmt.detect_page.exc = "none" /\ Len(fmt.detect_page.data.text_lines) = 2
    /\ fmt.detect_alto.data.page_width = DeclaredWidth
    /\ fmt.detect_page.data.page_width = DeclaredWidth

\* C13 - Cross-format equivalence: the ALTO document and the PAGE XML document
\* of the same page parse to results of equal page_width, page_height and line
\* count, with equal id and transcription line by line and equal confidence
\* where both lines carry one
CrossFormatEquivalence ==
    (fmt.pc = "done" /\ WellFormed /\ fmt.page_doc = PageOf(doc)) =>
        LET a == fmt.alto.data
            p == fmt.page.data
        IN /\ a.page_width = p.page_width
           /\ a.page_height = p.page_height
           /\ Len(a.text_lines) = Len(p.text_lines)
           /\ \A i \in 1..Len(a.text_lines) :
                 /\ a.text_lines[i].id = p.text_lines[i].id
                 /\ a.text_lines[i].transcription = p.text_lines[i].transcription
                 /\ (HasConfidence(a.text_lines[i]) /\ HasConfidence(p.text_lines[i])) =>
                       a.text_lines[i].confidence = p.text_lines[i].confidence

\* C20 - The two copies of the ALTO parser agree: for every markup the parser
\* of server.py and the parser of src/alto.py return equal page_width,
\* page_height and full_text and the same lines in the same order, equal in
\* id, polygon, transcription, hpos, vpos, width and height
CopiesAgree ==
    fmt.pc \in {"page", "detect_alto", "detect_page", "done"} =>
        LET a == fmt.alto.data
            b == fmt.server
        IN /\ a.page_width = b.page_width
           /\ a.page_height = b.page_height
           /\ a.full_text = b.full_text
           /\ Len(a.text_lines) = Len(b.text_lines)
           /\ \A i \in 1..Len(a.text_lines) :
                 \A f \in {"id", "polygon", "transcription", "hpos", "vpos", "width", "height"} :
                     a.text_lines[i][f] = b.text_lines[i][f]

\* C20 witness: both copies parsed a document of two returned lines, one
\* dropped line element among those of a second document
CopiesAgreeWitness ==
    /\ fmt.pc = "done"
    /\ Len(fmt.server.text_lines) = 2
    /\ fmt.server.text_lines[2].hpos # fmt.server.text_lines[2].vpos
    /\ fmt.server.page_width = DeclaredWidth

----------------------------------------------------------------------------
(* Concurrent calls of parse_alto_xml (src/alto.py), interleaved line group
   by line group: each call has its argument, its position and its locals *)

Callers == {1, 2}

\* the documents the concurrent callers parse
ConcurrentDocs ==
    {[page |-> "wh", nested |-> FALSE, open_line |-> 0,
      lines |-> <<Line(1, "ok", <<Sedan, Han>>), Line(2, "ok", <<Och>>)>>],
     [page |-> "wh", nested |-> TRUE, open_line |-> 0,
      lines |-> <<Line(1, "ok", <<Han>>), Line(2, "nopoly", <<Sedan>>)>>],
     [page |-> "none", nested |-> FALSE, open_line |-> 0,
      lines |-> <<Line(1, "alt", <<Sedan>>)>>],
     [page |-> "hw", nested |-> FALSE, open_line |-> 1,
      lines |-> <<Line(1, "ok", <<Sedan>>), Line(2, "ok", <<Hyphenated>>)>>],
     [page |-> "wh", nested |-> FALSE, open_line |-> 0, lines |-> <<>>]}

\* the locals of a call that has not assigned any
FreshFrame ==
    [page_width |-> 0, page_height |-> 0, raw_matches |-> <<>>, regex_mismatch |-> FALSE,
     next_match |-> 1, text_lines |-> <<>>, transcription_lines |-> <<>>,
     skipped_no_polygon |-> 0, skipped_no_transcription |-> 0]

\* every call working on the locals of the first
SharedFrame(c) == 1

\* the frame that holds the locals of the call of caller c
FrameOf(c) == c

InitConcurrent ==
    /\ \E a \in [Callers -> {Markup(d) : d \in ConcurrentDocs}] :
          calls = [args |-> a,
                   pc |-> [c \in Callers |-> "page"],
                   frames |-> [c \in Callers |-> FreshFrame],
                   returned |-> [c \in Callers |-> NoResult],
                   exc |-> [c \in Callers |-> "none"]]
    /\ doc = BaseDoc
    /\ xml_string = Markup(doc)
    /\ ParserIdle
    /\ fmt = "idle" /\ tool = "idle"
    /\ cache = "idle" /\ requests = "idle" /\ workers = "idle"

concurrent_unchanged == <<parser_vars, fmt, tool, cache, requests, workers>>

\* lines 54-63 in the call of caller c
CallExtractPageDimensions(c) ==
    /\ calls.pc[c] = "page"
    /\ LET dims == PageDimensions(calls.args[c])
       IN IF dims.raised # "none"
          THEN calls' = [calls EXCEPT !.pc[c] = "raised", !.exc[c] = dims.raised]
          ELSE calls' = [calls EXCEPT !.frames[FrameOf(c)].page_width = dims.width,
                                      !.frames[FrameOf(c)].page_height = dims.height,
                                      !.pc[c] = "lines"]
    /\ UNCHANGED concurrent_unchanged

\* lines 65-84 in the call of caller c
CallFindTextLines(c) ==
    /\ calls.pc[c] = "lines"
    /\ LET found == FindIter(calls.args[c], 1)
       IN calls' = [calls EXCEPT
                       !.frames[FrameOf(c)].raw_matches = found,
                       !.frames[FrameOf(c)].regex_mismatch =
                           (SimpleCount(calls.args[c]) > 0 /\ Len(found) = 0),
                       !.pc[c] = "loop"]
    /\ UNCHANGED concurrent_unchanged

\* lines 86-119 in the call of caller c: one turn of the loop
CallProcessMatch(c) ==
    /\ calls.pc[c] = "loop"
    /\ LET frame == calls.frames[FrameOf(c)]
       IN /\ frame.next_match <= Len(frame.raw_matches)
          /\ LET match == frame.raw_matches[frame.next_match]
                 polygon == PolygonOf(match.content)
                 transcription == TranscriptionOf(match.content)
                 kept == Keep(polygon.value, transcription)
             IN IF polygon.raised # "none"
                THEN calls' = [calls EXCEPT !.pc[c] = "raised", !.exc[c] = polygon.raised]
                ELSE calls' = [calls EXCEPT
                        !.frames[FrameOf(c)].skipped_no_polygon =
                            @ + (IF polygon.value = <<>> THEN 1 ELSE 0),
                        !.frames[FrameOf(c)].skipped_no_transcription =
                            @ + (IF transcription = <<>> THEN 1 ELSE 0),
                        !.frames[FrameOf(c)].text_lines =
                            IF kept THEN Append(@, TextLine(match, polygon.value, transcription))
                            ELSE @,
                        !.frames[FrameOf(c)].transcription_lines =
                            IF kept THEN Append(@, transcription) ELSE @,
                        !.frames[FrameOf(c)].next_match = @ + 1]
    /\ UNCHANGED concurrent_unchanged

\* lines 129-134 in the call of caller c
CallReturn(c) ==
    /\ calls.pc[c] = "loop"
    /\ LET frame == calls.frames[FrameOf(c)]
       IN /\ frame.next_match > Len(frame.raw_matches)
          /\ calls' = [calls EXCEPT
                          !.returned[c] = AltoData(frame.text_lines, frame.page_width,
                                                   frame.page_height,
                                                   frame.transcription_lines),
                          !.pc[c] = "done"]
    /\ UNCHANGED concurrent_unchanged

NextConcurrent ==
    \/ \E c \in Callers : CallExtractPageDimensions(c)
    \/ \E c \in Callers : CallFindTextLines(c)
    \/ \E c \in Callers : CallProcessMatch(c)
    \/ \E c \in Callers : CallReturn(c)

SpecConcurrent == InitConcurrent /\ [][NextConcurrent]_vars

----------------------------------------------------------------------------
(* The remote server, the lru_cache of the fetch helpers (src/tools.py) *)

MaxPages == 2

ImageUrls == {"i1", "i2"}
AltoUrls == {"a1", "a2"}
ImageIds == {"A1_00001", "A1_00002"}

\* what a request can come to: a response, an httpx.HTTPError, another exception
Outcomes == {"ok", "HTTPError", "Exception"}

\* the ALTO document the remote server holds under a URL or an image id
RemoteAlto(url) ==
    IF url \in {"a1", "A1_00001"}
    THEN Markup([page |-> "wh", nested |-> FALSE, open_line |-> 0,
                 lines |-> <<Line(1, "ok", <<Sedan, Han>>), Line(2, "ok", <<Och>>)>>])
    ELSE Markup([page |-> "none", nested |-> FALSE, open_line |-> 0,
                 lines |-> <<Line(1, "nopoly", <<Sedan>>)>>])

\* f"data:{content_type};base64,{b64}" of the image behind url
DataUrl(url) == <<"data:image/jpeg;base64,", url>>

\* the dict _fetch_and_parse_alto makes of the parsed document
AltoDict(data) ==
    [textLines |-> [i \in 1..Len(data.text_lines) |->
                       LET line == data.text_lines[i]
                       IN [id |-> line.id, polygon |-> line.polygon,
                           transcription |-> line.transcription,
                           hpos |-> line.hpos, vpos |-> line.vpos,
                           width |-> line.width, height |-> line.height]],
     pageWidth |-> data.page_width,
     pageHeight |-> data.page_height]

IMAGE_CACHE_SIZE == 32
THUMBNAIL_CACHE_SIZE == 128
ALTO_CACHE_SIZE == 32

\* an lru_cache as the list of its keys, least recently used first
Cached(c, url) == \E i \in 1..Len(c) : c[i] = url

Without(c, url) == SelectSeq(c, LAMBDA k : k # url)

\* a hit moves the key to the most recently used end
Touch(c, url) == Append(Without(c, url), url)

\* the result of a call is stored unless the key has come in meanwhile
Store(c, url, maxsize) ==
    IF Cached(c, url) THEN c
    ELSE IF Len(c) >= maxsize THEN Append(Tail(c), url)
    ELSE Append(c, url)

\* the contents a cache over the given URLs can have
CacheContents(urls) ==
    {c \in SeqsUpTo(urls, Cardinality(urls)) :
        \A i, j \in 1..Len(c) : i # j => c[i] # c[j]}

Request(kind, url, cached) == [kind |-> kind, url |-> url, cached |-> cached]

----------------------------------------------------------------------------
(* One call of view_document, load_page (src/tools.py) or fetch_alto_for_page
   (src/alto.py), the caches holding what earlier calls left in them *)

NoPage == [index |-> -1]
NoToolResult == [content |-> "none", structured |-> "none"]

\* a call that has been made and has not taken a step
ToolCall(name, image_urls, alto_urls, index, image_url, alto_url, image_id) ==
    [name |-> name, pc |-> "start",
     image_urls |-> image_urls, alto_urls |-> alto_urls,
     index |-> index, image_url |-> image_url, alto_url |-> alto_url,
     image_id |-> image_id,
     page |-> NoPage, errors |-> <<>>, page_urls |-> <<>>,
     result |-> NoToolResult, exc |-> "none",
     image_outcome |-> "none", alto_outcome |-> "none"]

ToolCalls ==
    {ToolCall("view_document", is, as, 0, "", "", "") :
        is \in SeqsUpTo(ImageUrls, MaxPages), as \in SeqsUpTo(AltoUrls, MaxPages)}
    \cup {ToolCall("load_page", <<>>, <<>>, k, i, a, "") :
            k \in 0..(MaxPages - 1), i \in ImageUrls, a \in AltoUrls}
    \cup {ToolCall("fetch_alto_for_page", <<>>, <<>>, 0, "", "", id) : id \in ImageIds}

InitTools ==
    /\ tool \in ToolCalls
    /\ cache \in [image : CacheContents(ImageUrls), thumbnail : {<<>>},
                  alto : CacheContents(AltoUrls)]
    /\ requests = <<>>
    /\ workers = "idle"
    /\ doc = BaseDoc
    /\ xml_string = Markup(doc)
    /\ ParserIdle
    /\ fmt = "idle" /\ calls = "idle"

tools_unchanged == <<parser_vars, fmt, calls, workers>>

\* lines 132-147: the count check, page_urls, and the call for the first page
ViewDocument ==
    /\ tool.name = "view_document" /\ tool.pc = "start"
    /\ IF Len(tool.image_urls) # Len(tool.alto_urls)
       THEN tool' = [tool EXCEPT
                        !.result = [content |-> [text |-> "Error: mismatched URL counts",
                                                 images |-> Len(tool.image_urls),
                                                 alto |-> Len(tool.alto_urls)],
                                    structured |-> "none"],
                        !.pc = "done"]
       ELSE IF Len(tool.image_urls) = 0
       THEN tool' = [tool EXCEPT !.exc = "IndexError", !.pc = "raised"]
       ELSE tool' = [tool EXCEPT
                        !.page_urls = [i \in 1..Len(tool.image_urls) |->
                                          [image |-> tool.image_urls[i],
                                           alto |-> tool.alto_urls[i]]],
                        !.index = 0,
                        !.image_url = tool.image_urls[1],
                        !.alto_url = tool.alto_urls[1],
                        !.page = [index |-> 0],
                        !.pc = "image"]
    /\ UNCHANGED <<cache, requests, tools_unchanged>>

\* line 175: the call for the page asked for
LoadPage ==
    /\ tool.name = "load_page" /\ tool.pc = "start"
    /\ tool' = [tool EXCEPT !.page = [index |-> tool.index], !.pc = "image"]
    /\ UNCHANGED <<cache, requests, tools_unchanged>>

\* the handler of lines 103-106 that leaves imageDataUrl unset
ImageFetchFailedUnset(page, errors, index, e) ==
    [page |-> page,
     errors |-> Append(errors, [page |-> index + 1, step |-> "image", e |-> e])]

\* lines 103-106
ImageFetchFailed(page, errors, index, e) ==
    [page |-> page @@ [imageDataUrl |-> <<>>],
     errors |-> Append(errors, [page |-> index + 1, step |-> "image", e |-> e])]

\* lines 110-113
AltoFetchFailed(page, errors, index, e) ==
    [page |-> page @@ [alto |-> [textLines |-> <<>>, pageWidth |-> 0, pageHeight |-> 0]],
     errors |-> Append(errors, [page |-> index + 1, step |-> "ALTO", e |-> e])]

\* lines 101-106: _fetch_image_as_data_url behind its cache
FetchImage ==
    /\ tool.pc = "image"
    /\ IF Cached(cache.image, tool.image_url)
       THEN /\ cache' = [cache EXCEPT !.image = Touch(@, tool.image_url)]
            /\ tool' = [tool EXCEPT !.page = @ @@ [imageDataUrl |-> DataUrl(tool.image_url)],
                                    !.image_outcome = "hit", !.pc = "alto"]
            /\ UNCHANGED requests
       ELSE \E o \in Outcomes :
            /\ requests' = Append(requests, Request("image", tool.image_url, FALSE))
            /\ IF o = "ok"
               THEN /\ cache' = [cache EXCEPT
                                   !.image = Store(@, tool.image_url, IMAGE_CACHE_SIZE)]
                    /\ tool' = [tool EXCEPT
                                   !.page = @ @@ [imageDataUrl |-> DataUrl(tool.image_url)],
                                   !.image_outcome = o, !.pc = "alto"]
               ELSE /\ LET after == ImageFetchFailed(tool.page, tool.errors, tool.index, o)
                       IN tool' = [tool EXCEPT !.page = after.page, !.errors = after.errors,
                                               !.image_outcome = o, !.pc = "alto"]
                    /\ UNCHANGED cache
    /\ UNCHANGED tools_unchanged

\* lines 108-113: _fetch_and_parse_alto behind its cache
FetchAlto ==
    /\ tool.pc = "alto"
    /\ LET parsed == AltoDict(parse_alto_xml(RemoteAlto(tool.alto_url)))
       IN IF Cached(cache.alto, tool.alto_url)
          THEN /\ cache' = [cache EXCEPT !.alto = Touch(@, tool.alto_url)]
               /\ tool' = [tool EXCEPT !.page = @ @@ [alto |-> parsed],
                                       !.alto_outcome = "hit", !.pc = "return"]
               /\ UNCHANGED requests
          ELSE \E o \in Outcomes :
               /\ requests' = Append(requests, Request("alto", tool.alto_url, FALSE))
               /\ IF o = "ok"
                  THEN /\ cache' = [cache EXCEPT
                                      !.alto = Store(@, tool.alto_url, ALTO_CACHE_SIZE)]
                       /\ tool' = [tool EXCEPT !.page = @ @@ [alto |-> parsed],
                                               !.alto_outcome = o, !.pc = "return"]
                  ELSE /\ LET after == AltoFetchFailed(tool.page, tool.errors, tool.index, o)
                          IN tool' = [tool EXCEPT !.page = after.page,
                                                  !.errors = after.errors,
                                                  !.alto_outcome = o, !.pc = "return"]
                       /\ UNCHANGED cache
    /\ UNCHANGED tools_unchanged

\* lines 149-161
ViewDocumentReturn ==
    /\ tool.name = "view_document" /\ tool.pc = "return"
    /\ tool' = [tool EXCEPT
                   !.result = [content |-> [text |-> "Loaded page 1",
                                            of |-> Len(tool.page_urls),
                                            total_lines |-> Len(tool.page.alto.textLines),
                                            errors |-> tool.errors],
                               structured |-> [pageUrls |-> tool.page_urls,
                                               firstPage |-> tool.page]],
                   !.pc = "done"]
    /\ UNCHANGED <<cache, requests, tools_unchanged>>

\* lines 177-186
LoadPageReturn ==
    /\ tool.name = "load_page" /\ tool.pc = "return"
    /\ tool' = [tool EXCEPT
                   !.result = [content |-> [text |-> "Page", page |-> tool.index + 1,
                                            total_lines |-> Len(tool.page.alto.textLines),
                                            errors |-> tool.errors],
                               structured |-> [page |-> tool.page]],
                   !.pc = "done"]
    /\ UNCHANGED <<cache, requests, tools_unchanged>>

\* except httpx.HTTPError only
CaughtHTTPErrorOnly(e) == e = "HTTPError"

\* except (httpx.HTTPError, Exception)
Caught(e) == e \in {"HTTPError", "Exception"}

\* alto.py lines 37-44: fetch_alto_for_page
FetchAltoForPage ==
    /\ tool.name = "fetch_alto_for_page" /\ tool.pc = "start"
    /\ \E o \in Outcomes :
          /\ requests' = Append(requests, Request("alto", tool.image_id, FALSE))
          /\ IF o = "ok"
             THEN tool' = [tool EXCEPT
                              !.result = parse_alto_xml(RemoteAlto(tool.image_id)).text_lines,
                              !.alto_outcome = o, !.pc = "done"]
             ELSE IF Caught(o)
             THEN tool' = [tool EXCEPT !.result = <<>>, !.alto_outcome = o, !.pc = "done"]
             ELSE tool' = [tool EXCEPT !.exc = o, !.alto_outcome = o, !.pc = "raised"]
    /\ UNCHANGED <<cache, tools_unchanged>>

NextTools ==
    \/ ViewDocument
    \/ LoadPage
    \/ FetchImage
    \/ FetchAlto
    \/ ViewDocumentReturn
    \/ LoadPageReturn
    \/ FetchAltoForPage

SpecTools == InitTools /\ [][NextTools]_vars

StepFailed(o) == o \in {"HTTPError", "Exception"}

\* the error entries a page with these two outcomes must come with
ExpectedErrors(index, image_outcome, alto_outcome) ==
    (IF StepFailed(image_outcome)
     THEN <<[page |-> index + 1, step |-> "image", e |-> image_outcome]>> ELSE <<>>)
    \o (IF StepFailed(alto_outcome)
        THEN <<[page |-> index + 1, step |-> "ALTO", e |-> alto_outcome]>> ELSE <<>>)

\* C15 - Partial results instead of abort: whatever the image fetch and the
\* ALTO fetch come to, _build_page_data raises nothing, the ALTO step is taken
\* also after a failed image step, the page has an imageDataUrl and an alto
\* entry, the errors are one entry per failed step, a failed image gives the
\* empty imageDataUrl and a failed ALTO no lines and a page of 0 by 0
PartialResults ==
    tool.name \in {"view_document", "load_page"} =>
        /\ tool.pc = "raised" => tool.image_outcome = "none" /\ tool.page = NoPage
        /\ (tool.pc \in {"return", "done"} /\ tool.page # NoPage) =>
              /\ tool.image_outcome # "none" /\ tool.alto_outcome # "none"
              /\ {"index", "imageDataUrl", "alto"} \subseteq DOMAIN tool.page
              /\ tool.errors =
                    ExpectedErrors(tool.index, tool.image_outcome, tool.alto_outcome)
              /\ tool.page.imageDataUrl =
                    IF StepFailed(tool.image_outcome) THEN <<>> ELSE DataUrl(tool.image_url)
              /\ StepFailed(tool.alto_outcome) =>
                    tool.page.alto = [textLines |-> <<>>, pageWidth |-> 0, pageHeight |-> 0]
        /\ tool.pc = "done" /\ tool.name = "load_page" =>
              tool.result.structured.page = tool.page

\* C15 witness: load_page returned a page whose image failed and whose ALTO
\* was fetched and parsed to two lines
PartialResultsWitness ==
    /\ tool.name = "load_page" /\ tool.pc = "done"
    /\ tool.image_outcome = "HTTPError" /\ tool.alto_outcome = "ok"
    /\ Len(tool.errors) = 1
    /\ tool.result.structured.page.imageDataUrl = <<>>
    /\ Len(tool.result.structured.page.alto.textLines) = 2

\* C17 - view-document fetches only the first page: for lists of equal length
\* it returns pageUrls with one image/alto entry per page in input order and
\* requests nothing but the image and the ALTO of index 0; for lists of
\* different lengths it requests nothing and returns only the error text with
\* both counts
FirstPageOnly ==
    (tool.name = "view_document" /\ tool.pc \in {"done", "raised"}) =>
        IF Len(tool.image_urls) = Len(tool.alto_urls)
        THEN /\ tool.pc = "done"
             /\ tool.result.structured.pageUrls =
                   [i \in 1..Len(tool.image_urls) |->
                       [image |-> tool.image_urls[i], alto |-> tool.alto_urls[i]]]
             /\ tool.result.structured.firstPage.index = 0
             /\ \A i \in 1..Len(requests) :
                   requests[i].url =
                       IF requests[i].kind = "image" THEN tool.image_urls[1]
                       ELSE tool.alto_urls[1]
             /\ Len(requests) <= 2
        ELSE /\ tool.pc = "done"
             /\ requests = <<>>
             /\ tool.result.structured = "none"
             /\ tool.result.content.images = Len(tool.image_urls)
             /\ tool.result.content.alto = Len(tool.alto_urls)

\* C19 - fetch_alto_for_page never raises: it returns the empty list when the
\* fetch fails in any way, and the text_lines of parse_alto_xml of the fetched
\* markup when it succeeds
NeverRaises ==
    (tool.name = "fetch_alto_for_page" /\ tool.pc # "start") =>
        /\ tool.pc = "done" /\ tool.exc = "none"
        /\ Len(requests) = 1
        /\ tool.alto_outcome = "ok" =>
              tool.result = Retained(FindIter(RemoteAlto(tool.image_id), 1), 1)
        /\ tool.alto_outcome # "ok" => tool.result = <<>>

\* C19 witness: the fetch failed with an exception that is no HTTPError and
\* the call returned the empty list
NeverRaisesWitness ==
    /\ tool.name = "fetch_alto_for_page" /\ tool.pc = "done"
    /\ tool.alto_outcome = "Exception"
    /\ tool.result = <<>>

----------------------------------------------------------------------------
(* One call of load_thumbnails (src/tools.py): the calling thread and the
   tasks of its thread pool, each task a call of _fetch_one *)

MaxBatch == 2
MAX_WORKERS == 4

Min(a, b) == IF a < b THEN a ELSE b

\* the pairs of zip(image_urls, page_indices), each a task submitted to the pool
Tasks(image_urls, page_indices) ==
    [k \in 1..Min(Len(image_urls), Len(page_indices)) |->
        [url |-> image_urls[k], idx |-> page_indices[k], pc |-> "queued",
         result |-> [ok |-> FALSE, index |-> page_indices[k], dataUrl |-> <<>>]]]

InitThumbs ==
    /\ \E us \in SeqsUpTo(ImageUrls, MaxBatch), ks \in SeqsUpTo(0..MaxBatch, MaxBatch) :
          tool = [name |-> "load_thumbnails", pc |-> "start",
                  image_urls |-> us, page_indices |-> ks,
                  max_workers |-> 0, next_future |-> 1,
                  thumbnails |-> <<>>, errors |-> <<>>,
                  result |-> NoToolResult, exc |-> "none"]
    /\ cache \in [image : {<<>>}, thumbnail : CacheContents(ImageUrls), alto : {<<>>}]
    /\ requests = <<>>
    /\ workers = <<>>
    /\ doc = BaseDoc
    /\ xml_string = Markup(doc)
    /\ ParserIdle
    /\ fmt = "idle" /\ calls = "idle"

thumbs_unchanged == <<parser_vars, fmt, calls>>

\* lines 210-214: the pool is made and every pair submitted
LoadThumbnails ==
    /\ tool.pc = "start"
    /\ LET max_workers == Min(Len(tool.image_urls), MAX_WORKERS)
       IN IF max_workers <= 0
          THEN /\ tool' = [tool EXCEPT !.exc = "ValueError", !.pc = "raised"]
               /\ UNCHANGED workers
          ELSE /\ tool' = [tool EXCEPT !.max_workers = max_workers, !.pc = "collect"]
               /\ workers' = Tasks(tool.image_urls, tool.page_indices)
    /\ UNCHANGED <<cache, requests, thumbs_unchanged>>

Running == {w \in 1..Len(workers) : workers[w].pc \in {"call", "waiting"}}

\* a thread of the pool takes task w: line 204, the lookup in the cache
WorkerLookup(w) ==
    /\ workers[w].pc = "queued"
    /\ Cardinality(Running) < tool.max_workers
    /\ IF Cached(cache.thumbnail, workers[w].url)
       THEN /\ cache' = [cache EXCEPT !.thumbnail = Touch(@, workers[w].url)]
            /\ workers' = [workers EXCEPT
                              ![w].result = [ok |-> TRUE, index |-> workers[w].idx,
                                             dataUrl |-> DataUrl(workers[w].url)],
                              ![w].pc = "done"]
       ELSE /\ workers' = [workers EXCEPT ![w].pc = "call"]
            /\ UNCHANGED cache
    /\ UNCHANGED <<tool, requests, thumbs_unchanged>>

\* lines 55-56: after a miss the helper sends its request
WorkerRequest(w) ==
    /\ workers[w].pc = "call"
    /\ requests' = Append(requests, Request("thumbnail", workers[w].url,
                                            Cached(cache.thumbnail, workers[w].url)))
    /\ workers' = [workers EXCEPT ![w].pc = "waiting"]
    /\ UNCHANGED <<tool, cache, thumbs_unchanged>>

\* lines 56-68 and 203-208: the response or the failure, and what _fetch_one returns
WorkerResponse(w) ==
    /\ workers[w].pc = "waiting"
    /\ \E o \in Outcomes :
          IF o = "ok"
          THEN /\ cache' = [cache EXCEPT
                              !.thumbnail = Store(@, workers[w].url, THUMBNAIL_CACHE_SIZE)]
               /\ workers' = [workers EXCEPT
                                 ![w].result = [ok |-> TRUE, index |-> workers[w].idx,
                                                dataUrl |-> DataUrl(workers[w].url)],
                                 ![w].pc = "done"]
          ELSE /\ workers' = [workers EXCEPT ![w].pc = "done"]
               /\ UNCHANGED cache
    /\ UNCHANGED <<tool, requests, thumbs_unchanged>>

\* lines 215-221: the result of the next future, in the order of submission
Collect ==
    /\ tool.pc = "collect"
    /\ tool.next_future <= Len(workers)
    /\ workers[tool.next_future].pc = "done"
    /\ LET task == workers[tool.next_future]
       IN IF task.result.ok
          THEN tool' = [tool EXCEPT
                           !.thumbnails = Append(@, [index |-> task.result.index,
                                                     dataUrl |-> task.result.dataUrl]),
                           !.next_future = @ + 1]
          ELSE tool' = [tool EXCEPT
                           !.errors = Append(@, [page |-> task.idx + 1]),
                           !.next_future = @ + 1]
    /\ UNCHANGED <<cache, requests, workers, thumbs_unchanged>>

\* t put into the sorted list after the entries whose index is not greater
RECURSIVE Insert(_, _)
Insert(sorted, t) ==
    IF sorted = <<>> THEN <<t>>
    ELSE IF t.index < Head(sorted).index THEN <<t>> \o sorted
    ELSE <<Head(sorted)>> \o Insert(Tail(sorted), t)

\* list.sort(key=index), entries of equal index keeping their order
RECURSIVE SortByIndex(_)
SortByIndex(ts) ==
    IF ts = <<>> THEN <<>>
    ELSE Insert(SortByIndex(SubSeq(ts, 1, Len(ts) - 1)), ts[Len(ts)])

\* lines 223-234
LoadThumbnailsReturn ==
    /\ tool.pc = "collect"
    /\ tool.next_future > Len(workers)
    /\ LET sorted == SortByIndex(tool.thumbnails)
       IN tool' = [tool EXCEPT
                      !.thumbnails = sorted,
                      !.result = [content |-> [text |-> "Generated thumbnails",
                                               generated |-> Len(sorted),
                                               errors |-> tool.errors],
                                  structured |-> [thumbnails |-> sorted]],
                      !.pc = "done"]
    /\ UNCHANGED <<cache, requests, workers, thumbs_unchanged>>

NextThumbs ==
    \/ LoadThumbnails
    \/ \E w \in 1..Len(workers) : WorkerLookup(w)
    \/ \E w \in 1..Len(workers) : WorkerRequest(w)
    \/ \E w \in 1..Len(workers) : WorkerResponse(w)
    \/ Collect
    \/ LoadThumbnailsReturn

SpecThumbs == InitThumbs /\ [][NextThumbs]_vars

\* C16 - The cache on the fetch helpers avoids re-downloading: no request is
\* sent for a URL that is in the cache at that moment, also among the parallel
\* tasks of one load-thumbnails batch that names a URL twice
NoRedownload ==
    \A i \in 1..Len(requests) : ~requests[i].cached

\* the number of entries e of a list with F(e) = v
Count(es, F(_), v) == Cardinality({i \in 1..Len(es) : F(es[i]) = v})

ThumbnailIndex(t) == t.index
ErrorIndex(e) == e.page - 1
TaskIndex(k) == k

\* C18 - load-thumbnails accounts for every requested page and returns them in
\* order: the call returns; every (url, index) pair has given one thumbnail
\* of that index or one error of that index, so that thumbnails and errors
\* together are as many as the pairs; a pair whose fetch succeeded has its
\* thumbnail whatever became of the others; the thumbnails are in ascending
\* order of index
AccountsForEveryPage ==
    tool.pc \in {"done", "raised"} =>
        /\ tool.pc = "done"
        /\ LET n == Min(Len(tool.image_urls), Len(tool.page_indices))
               pairs == SubSeq(tool.page_indices, 1, n)
               thumbnails == tool.result.structured.thumbnails
           IN /\ Len(thumbnails) + Len(tool.errors) = n
              /\ \A v \in 0..MaxBatch :
                    Count(thumbnails, ThumbnailIndex, v) + Count(tool.errors, ErrorIndex, v)
                        = Count(pairs, TaskIndex, v)
              /\ \A w \in 1..Len(workers) :
                    workers[w].result.ok =>
                        \E i \in 1..Len(thumbnails) :
                            /\ thumbnails[i].index = workers[w].idx
                            /\ thumbnails[i].dataUrl = DataUrl(workers[w].url)
              /\ \A i, j \in 1..Len(thumbnails) :
                    i < j => thumbnails[i].index <= thumbnails[j].index

====
